---- MODULE Spec2Model ----
(***************************************************************************)
(* ToonOut background-removal service (src/main.py): the model loader, the *)
(* cutout function, the API-key dependency and the three routes of the     *)
(* FastAPI application, as a state machine.                                *)
(*                                                                         *)
(* Text (archive entry names, upload file names) is a sequence of          *)
(* one-character strings, so that splitext, basename, lower and endswith   *)
(* are computed character by character as the library computes them.       *)
(***************************************************************************)
EXTENDS Integers, Sequences, FiniteSets, TLC

\* ------------------------------------------------------------------ bounds
\* Longest archive (number of entries) a client uploads.
MaxEntries == 2
\* /cutout_zip requests suspended at `await file.read()` at the same time
\* (concurrent specification).
MaxInFlight == 2
\* Largest number of pixels of an image given to cutout_rgba.
MaxPixels == 2

\* ------------------------------------------------------------------- text
\* Python's None for an Optional[str] (API key, header value).
None == "<None>"
\* None where a name (a character sequence) is expected.
NoName == <<"<None>">>

LowerChar(c) ==
    CASE c = "P" -> "p"
      [] c = "N" -> "n"
      [] c = "G" -> "g"
      [] c = "Z" -> "z"
      [] c = "I" -> "i"
      [] c = "J" -> "j"
      [] OTHER -> c

\* str.lower()
Lower(s) == [i \in 1..Len(s) |-> LowerChar(s[i])]

\* str.endswith(suffix)
EndsWith(s, suffix) ==
    /\ Len(suffix) <= Len(s)
    /\ SubSeq(s, Len(s) - Len(suffix) + 1, Len(s)) = suffix

\* str.rfind(c), 0-based as in Python: -1 when c does not occur.
RFind(s, c) ==
    LET hits == {i \in 1..Len(s) : s[i] = c}
    IN  IF hits = {} THEN -1 ELSE (CHOOSE i \in hits : \A j \in hits : j <= i) - 1

\* posixpath.splitext(p): <<root, ext>>. The extension starts at the last dot
\* of the last path component, unless only dots precede it in that component.
SplitExt(p) ==
    LET sepIndex == RFind(p, "/")
        dotIndex == RFind(p, ".")
        \* 0-based positions filenameIndex with sepIndex < filenameIndex < dotIndex
        nonDot   == {k \in (sepIndex + 1)..(dotIndex - 1) : p[k + 1] # "."}
    IN  IF dotIndex > sepIndex /\ nonDot # {}
        THEN <<SubSeq(p, 1, dotIndex), SubSeq(p, dotIndex + 1, Len(p))>>
        ELSE <<p, <<>>>>

\* posixpath.basename(p)
BaseName(p) == SubSeq(p, RFind(p, "/") + 2, Len(p))

\* String literals of the handler.
DotZip == <<".", "z", "i", "p">>
Slash == <<"/">>
CutoutSuffix == <<"_", "c", "u", "t", "o", "u", "t", ".", "p", "n", "g">>
ErrorSuffix == <<".", "E", "R", "R", "O", "R", ".", "t", "x", "t">>
valid_exts ==
    { <<".", "p", "n", "g">>, <<".", "j", "p", "g">>, <<".", "j", "p", "e", "g">>,
      <<".", "w", "e", "b", "p">>, <<".", "b", "m", "p">> }

\* Mutant of IsMember: the extension is compared without .lower().
IsMemberCaseSensitive(n) == ~EndsWith(n, Slash) /\ SplitExt(n)[2] \in valid_exts

\* The condition of the `members` comprehension.
IsMember(n) == ~EndsWith(n, Slash) /\ Lower(SplitExt(n)[2]) \in valid_exts

\* Mutant of OutName: os.path.basename is left out.
OutNameKeepsDir(name) == SplitExt(name)[1] \o CutoutSuffix

\* out_name and error_name of the processing loop.
OutName(name) == SplitExt(BaseName(name))[1] \o CutoutSuffix
ErrorName(name) == BaseName(name) \o ErrorSuffix

\* The condition of the upload's file-name check.
IsZipName(filename) == EndsWith(Lower(filename), DotZip)

\* ------------------------------------------------------------ the process
VARIABLES
    API_KEY,     \* os.environ.get("TOONOUT_API_KEY"), read once at import
    model,       \* the global _model: ModelNone or the cached instance
    loadCount,   \* how many times load_model ran to `_model = model`
    pending,     \* /cutout_zip handlers suspended at `await file.read()`
    last,        \* what the latest handler step answered or, at the await, checked
    img,         \* cutout_rgba: the input image
    threshold,   \* cutout_rgba: <<>> for None, <<n, d>> for a threshold of n/d
    mask,        \* cutout_rgba: the model's mask, resized to the original resolution
    rgba         \* cutout_rgba: the returned image, NoImage before the call

serverVars == <<API_KEY, model, loadCount, pending, last>>
cutoutVars == <<img, threshold, mask, rgba>>
vars == <<API_KEY, model, loadCount, pending, last, img, threshold, mask, rgba>>

\* `_model = None`
ModelNone == 0

\* ----------------------------------------------------------------- inputs
Name_a_x_png == <<"a", "/", "x", ".", "p", "n", "g">>
Name_b_x_JPG == <<"b", "/", "x", ".", "J", "P", "G">>
Name_n_txt == <<"n", ".", "t", "x", "t">>
Name_empty == <<>>
Name_dir == <<"d", ".", "p", "n", "g", "/">>
Name_dotfile == <<"a", "/", ".", "p", "n", "g">>
Name_s_bmp == <<"s", ".", "b", "m", "p">>

\* An archive entry: its name, and what reading it back gives ("ok", "badcrc":
\* the stored CRC does not match, "encrypted": the entry needs a password).
Entry(n, k) == [name |-> n, kind |-> k]

Catalogue ==
    { Entry(Name_a_x_png, "ok"), Entry(Name_b_x_JPG, "ok"),
      Entry(Name_dir, "ok"), Entry(Name_dotfile, "ok"),
      Entry(Name_n_txt, "badcrc"), Entry(Name_empty, "badcrc"),
      Entry(Name_s_bmp, "encrypted") }

\* An upload body: bytes that are no ZIP, or a ZIP with these entries in order.
NotZipBody == [zip |-> FALSE, entries |-> <<>>]
ZipBody(es) == [zip |-> TRUE, entries |-> es]
NoBody == [zip |-> FALSE, entries |-> <<Entry(NoName, "unread")>>]

SeqsUpTo(S, n) == UNION {[1..k -> S] : k \in 0..n}

AllBodies == {NotZipBody} \cup {ZipBody(es) : es \in SeqsUpTo(Catalogue, MaxEntries)}
\* Archives of one and of two images (concurrent specification).
ImageBodies ==
    { ZipBody(<<Entry(Name_a_x_png, "ok")>>),
      ZipBody(<<Entry(Name_a_x_png, "ok"), Entry(Name_b_x_JPG, "ok")>>) }

FileNames ==
    { <<"a", ".", "z", "i", "p">>, <<"z", ".", "Z", "I", "p">>,
      <<"a", ".", "t", "x", "t">>, <<"z", "i", "p">> }
NoFileName == NoName

Keys == {None, "", "k1"}
Headers == {None, "k1", "k2"}

\* Where the processing of one entry raises: nowhere, in Image.open/im.load,
\* in load_model, in the forward pass, or in rgba.save.
Fails == {"none", "decode", "load", "infer", "encode"}

Routes == {"/", "/ping", "/cutout_zip"}

\* ----------------------------------------------------------- model loader
\* Mutant of LoadModel: the `if _model is not None` shortcut is left out.
LoadModelNoCache(m, cnt, raises) ==
    IF raises
    THEN [model |-> m, count |-> cnt, raised |-> TRUE, event |-> "raised"]
    ELSE [model |-> cnt + 1, count |-> cnt + 1, raised |-> FALSE, event |-> "loaded"]

\* load_model(): the cached instance when there is one; otherwise the load,
\* which either raises (leaving _model as it was) or stores a new instance.
LoadModel(m, cnt, raises) ==
    IF m # ModelNone
    THEN [model |-> m, count |-> cnt, raised |-> FALSE, event |-> "cached"]
    ELSE IF raises
         THEN [model |-> m, count |-> cnt, raised |-> TRUE, event |-> "raised"]
         ELSE [model |-> cnt + 1, count |-> cnt + 1, raised |-> FALSE, event |-> "loaded"]

\* -------------------------------------------------------------- responses
\* What a handler step leaves to observe: the route, and either what the step
\* before the await checked (the header and the upload's file name; status 0
\* while the handler is suspended) or what the rest of the handler did (the
\* body it read, the members it found and opened, the archive it wrote).
NoResponse ==
    [route |-> None, hdr |-> None, status |-> 0, detail |-> "", filename |-> NoFileName,
     body |-> NoBody, read |-> FALSE, zipOpened |-> FALSE, archive |-> FALSE,
     members |-> <<>>, opened |-> <<>>, out |-> <<>>, trace |-> <<>>]

Response(route, hdr, status, detail) ==
    [NoResponse EXCEPT !.route = route, !.hdr = hdr, !.status = status, !.detail = detail]

\* Mutant of VerifyApiKeyRaises: `API_KEY is not None` instead of `API_KEY`.
VerifyApiKeyRaisesUnlessNone(x_api_key) == API_KEY # None /\ x_api_key # API_KEY

\* verify_api_key: TRUE when it raises HTTPException(401).
VerifyApiKeyRaises(x_api_key) == API_KEY # None /\ API_KEY # "" /\ x_api_key # API_KEY

\* Python truthiness of an Optional[str].
Truthy(s) == s # NoName /\ s # <<>>

\* ZipFile.testzip(): reads every entry in archive order; the name of the first
\* entry whose CRC fails, None when there is none; an encrypted entry makes
\* ZipFile.open raise RuntimeError (no password was given).
TestZip(entries) ==
    LET bad == {i \in 1..Len(entries) : entries[i].kind # "ok"}
        first == CHOOSE i \in bad : \A j \in bad : i <= j
    IN  IF bad = {} THEN [raised |-> FALSE, result |-> NoName]
        ELSE IF entries[first].kind = "encrypted"
             THEN [raised |-> TRUE, result |-> NoName]
             ELSE [raised |-> FALSE, result |-> entries[first].name]

\* zin.namelist()
NameList(entries) == [i \in 1..Len(entries) |-> entries[i].name]

OutEntry(n, k, t) == [name |-> n, kind |-> k, text |-> t]

\* Mutant of ProcessEntry: the PNG entry is written before rgba.save can
\* raise, so an encoding failure leaves the cutout and the error marker.
ProcessEntryWritesFirst(name, fail, st) ==
    LET lm     == LoadModel(st.model, st.count, fail = "load")
        raised == IF fail = "decode" THEN "decode"
                  ELSE IF lm.raised THEN "load"
                  ELSE IF fail \in {"infer", "encode"} THEN fail
                  ELSE "none"
        called == fail # "decode"
        png    == OutEntry(OutName(name), "png", "")
        err    == OutEntry(ErrorName(name), "error", raised)
    IN  [model  |-> IF called THEN lm.model ELSE st.model,
         count  |-> IF called THEN lm.count ELSE st.count,
         opened |-> Append(st.opened, name),
         out    |-> IF raised = "none" THEN Append(st.out, png)
                    ELSE IF raised = "encode" THEN st.out \o <<png, err>>
                    ELSE Append(st.out, err),
         trace  |-> Append(st.trace,
                        [event  |-> IF called THEN lm.event ELSE "nocall",
                         raised |-> raised])]

\* One iteration of `for name in members`: st is the loop's state
\* [model, count, opened, out, trace]; fail is where this entry raises.
ProcessEntry(name, fail, st) ==
    LET opened == Append(st.opened, name)
        lm     == LoadModel(st.model, st.count, fail = "load")
        \* the exception the try block ends with, "none" when it completes
        raised == IF fail = "decode" THEN "decode"
                  ELSE IF lm.raised THEN "load"
                  ELSE IF fail \in {"infer", "encode"} THEN fail
                  ELSE "none"
        called == fail # "decode"
    IN  [model  |-> IF called THEN lm.model ELSE st.model,
         count  |-> IF called THEN lm.count ELSE st.count,
         opened |-> opened,
         out    |-> Append(st.out,
                        IF raised = "none"
                        THEN OutEntry(OutName(name), "png", "")
                        ELSE OutEntry(ErrorName(name), "error", raised)),
         trace  |-> Append(st.trace,
                        [event  |-> IF called THEN lm.event ELSE "nocall",
                         raised |-> raised])]

\* Mutant of ProcessMembers: the try/except is around the loop, so the first
\* entry that raises ends it.
RECURSIVE ProcessMembersAbort(_, _, _, _)
ProcessMembersAbort(members, fails, k, st) ==
    IF k > Len(members) THEN st
    ELSE LET nxt == ProcessEntry(members[k], fails[k], st)
         IN  IF nxt.trace[Len(nxt.trace)].raised # "none" THEN nxt
             ELSE ProcessMembersAbort(members, fails, k + 1, nxt)

\* `for name in members`, from the k-th member on.
RECURSIVE ProcessMembers(_, _, _, _)
ProcessMembers(members, fails, k, st) ==
    IF k > Len(members) THEN st
    ELSE ProcessMembers(members, fails, k + 1, ProcessEntry(members[k], fails[k], st))

\* ----------------------------------------------------------------- routes
\* GET /
Root(hdr) ==
    /\ last' = Response("/", hdr, 200, "info")
    /\ UNCHANGED <<API_KEY, model, loadCount, pending>>

\* Mutant of Ping: the route is declared without its dependency.
PingUngated(hdr) ==
    /\ last' = Response("/ping", hdr, 200, "ok")
    /\ UNCHANGED <<API_KEY, model, loadCount, pending>>

\* GET /ping
Ping(hdr) ==
    /\ last' = IF VerifyApiKeyRaises(hdr)
               THEN Response("/ping", hdr, 401, "Unauthorized - Invalid API key")
               ELSE Response("/ping", hdr, 200, "ok")
    /\ UNCHANGED <<API_KEY, model, loadCount, pending>>

\* POST /cutout_zip, up to `await file.read()`.
CutoutBegin(hdr, filename, body, inflight) ==
    /\ Len(pending) < inflight
    /\ IF VerifyApiKeyRaises(hdr)
       THEN /\ last' = [Response("/cutout_zip", hdr, 401, "Unauthorized - Invalid API key")
                            EXCEPT !.filename = filename]
            /\ UNCHANGED pending
       ELSE IF ~IsZipName(filename)
       THEN /\ last' = [Response("/cutout_zip", hdr, 400, "Upload must be a .zip file")
                            EXCEPT !.filename = filename]
            /\ UNCHANGED pending
       ELSE /\ pending' = Append(pending, [body |-> body])
            /\ last' = [Response("/cutout_zip", hdr, 0, "await file.read()")
                            EXCEPT !.filename = filename]
    /\ UNCHANGED <<API_KEY, model, loadCount>>

\* The rest of the handler for a suspended request: from the return of
\* file.read() to the response, without another await.
CutoutRest(req, fails) ==
    LET base    == [Response("/cutout_zip", None, 0, "") EXCEPT
                       !.body = req.body, !.read = TRUE]
        entries == req.body.entries
        members == SelectSeq(NameList(entries), IsMember)
        tz      == TestZip(entries)
        st      == ProcessMembers(members, fails, 1,
                       [model |-> model, count |-> loadCount,
                        opened |-> <<>>, out |-> <<>>, trace |-> <<>>])
    IN  IF ~req.body.zip
        THEN /\ last' = [base EXCEPT !.status = 400, !.detail = "Invalid ZIP file"]
             /\ UNCHANGED <<model, loadCount>>
        ELSE IF members = <<>>
        THEN /\ last' = [base EXCEPT !.status = 400, !.zipOpened = TRUE,
                            !.detail = "ZIP contains no supported images"]
             /\ UNCHANGED <<model, loadCount>>
        ELSE IF tz.raised
        THEN /\ last' = [base EXCEPT !.status = 500, !.zipOpened = TRUE,
                            !.members = members, !.detail = "Internal Server Error"]
             /\ UNCHANGED <<model, loadCount>>
        ELSE IF Truthy(tz.result)
        THEN /\ last' = [base EXCEPT !.status = 400, !.zipOpened = TRUE,
                            !.members = members, !.detail = "ZIP integrity check failed"]
             /\ UNCHANGED <<model, loadCount>>
        ELSE /\ last' = [base EXCEPT !.status = 200, !.zipOpened = TRUE,
                            !.detail = "application/zip", !.archive = TRUE,
                            !.members = members, !.opened = st.opened,
                            !.out = st.out, !.trace = st.trace]
             /\ model' = st.model
             /\ loadCount' = st.count

RemoveAt(s, i) == SubSeq(s, 1, i - 1) \o SubSeq(s, i + 1, Len(s))

CutoutResume(i) ==
    /\ i \in 1..Len(pending)
    /\ \E fails \in [1..Len(SelectSeq(NameList(pending[i].body.entries), IsMember)) -> Fails] :
           CutoutRest(pending[i], fails)
    /\ pending' = RemoveAt(pending, i)
    /\ UNCHANGED API_KEY

\* ------------------------------------------------------------ cutout_rgba
\* An image: its mode, its size <<width, height>>, its EXIF orientation tag and
\* its pixels in row-major order, each a tuple of channel values.
NoImage == [mode |-> "none", size |-> <<0, 0>>, orientation |-> 1, px |-> <<>>]

Pixel(im, xx, yy) == im.px[yy * im.size[1] + xx + 1]

\* Image.transpose(ROTATE_180)
Rotate180(im) ==
    LET w == im.size[1]
        h == im.size[2]
    IN  [im EXCEPT !.orientation = 1,
                   !.px = [k \in 1..(w * h) |->
                              Pixel(im, w - 1 - ((k - 1) % w), h - 1 - ((k - 1) \div w))]]

\* Image.transpose(ROTATE_270): a quarter turn clockwise, width and height swap.
Rotate270(im) ==
    LET w == im.size[1]
        h == im.size[2]
    IN  [im EXCEPT !.orientation = 1,
                   !.size = <<h, w>>,
                   !.px = [k \in 1..(w * h) |->
                              Pixel(im, (k - 1) \div h, h - 1 - ((k - 1) % h))]]

\* ImageOps.exif_transpose(img)
ExifTranspose(im) ==
    CASE im.orientation = 3 -> Rotate180(im)
      [] im.orientation = 6 -> Rotate270(im)
      [] OTHER -> im

\* Image.convert("RGB")
ConvertRGB(im) ==
    [im EXCEPT !.mode = "RGB",
               !.px = [k \in 1..Len(im.px) |->
                          IF im.mode = "L"
                          THEN <<im.px[k][1], im.px[k][1], im.px[k][1]>>
                          ELSE <<im.px[k][1], im.px[k][2], im.px[k][3]>>]]

\* Mutant of ApplyThreshold: `>` instead of `>=`.
ApplyThresholdStrict(m, thr) ==
    IF thr # <<>>
    THEN [k \in 1..Len(m) |-> IF m[k] * thr[2] > thr[1] * 255 THEN 255 ELSE 0]
    ELSE m

\* `mask.point(lambda p: 255 if p >= threshold * 255 else 0)` when a threshold
\* is given, the mask as it is otherwise.
ApplyThreshold(m, thr) ==
    IF thr # <<>>
    THEN [k \in 1..Len(m) |-> IF m[k] * thr[2] >= thr[1] * 255 THEN 255 ELSE 0]
    ELSE m

\* out = rgb.copy(); out.putalpha(mask)
PutAlpha(rgb, m) ==
    [rgb EXCEPT !.mode = "RGBA",
                !.px = [k \in 1..Len(rgb.px) |->
                           <<rgb.px[k][1], rgb.px[k][2], rgb.px[k][3], m[k]>>]]

\* cutout_rgba after load_model(): m is the mask the forward pass gave,
\* resized to original_size.
CutoutRgba(im, thr, m) ==
    LET rgb == ConvertRGB(ExifTranspose(im))
    IN  PutAlpha(rgb, ApplyThreshold(m, thr))

\* Inputs: images of at most MaxPixels pixels whose pixels differ by position.
Sizes == {sz \in (1..MaxPixels) \X (1..MaxPixels) : sz[1] * sz[2] <= MaxPixels}
Modes == {"RGB", "L", "RGBA"}
Orientations == {1, 3, 6}
Colour(mode, k) ==
    CASE mode = "L" -> <<10 * k>>
      [] mode = "RGB" -> <<10 * k, 20 * k, 30 * k>>
      [] OTHER -> <<10 * k, 20 * k, 30 * k, 255 - k>>
Images ==
    { [mode |-> md, size |-> sz, orientation |-> o,
       px |-> [k \in 1..(sz[1] * sz[2]) |-> Colour(md, k)]] :
         md \in Modes, sz \in Sizes, o \in Orientations }
MaskValues == {0, 127, 128, 255}
Thresholds == {<<>>, <<0, 1>>, <<1, 2>>, <<1, 1>>}

\* One call of cutout_rgba on the inputs of this behaviour.
CutoutCall ==
    /\ rgba = NoImage
    /\ \E raises \in BOOLEAN :
         LET lm == LoadModel(model, loadCount, raises)
         IN  /\ model' = lm.model
             /\ loadCount' = lm.count
             /\ rgba' = IF lm.raised THEN NoImage ELSE CutoutRgba(img, threshold, mask)
    /\ UNCHANGED <<API_KEY, pending, last, img, threshold, mask>>

\* ---------------------------------------------------------- specifications
CutoutIdle ==
    /\ img = NoImage
    /\ threshold = <<>>
    /\ mask = <<>>
    /\ rgba = NoImage

Init ==
    /\ API_KEY \in Keys
    /\ model = ModelNone
    /\ loadCount = 0
    /\ pending = <<>>
    /\ last = NoResponse
    /\ CutoutIdle

\* The client of the sequential specification reads a response before it
\* sends the next request.
Idle == last = NoResponse /\ pending = <<>>

Deliver ==
    /\ last.status # 0
    /\ last' = NoResponse
    /\ UNCHANGED <<API_KEY, model, loadCount, pending>>

\* One request at a time, over every upload of the catalogue.
Next ==
    \/ \E hdr \in Headers : Idle /\ Root(hdr) /\ UNCHANGED cutoutVars
    \/ \E hdr \in Headers : Idle /\ Ping(hdr) /\ UNCHANGED cutoutVars
    \/ \E hdr \in Headers, filename \in FileNames, body \in AllBodies :
           Idle /\ CutoutBegin(hdr, filename, body, MaxInFlight) /\ UNCHANGED cutoutVars
    \/ \E i \in 1..MaxInFlight : CutoutResume(i) /\ UNCHANGED cutoutVars
    \/ Deliver /\ UNCHANGED cutoutVars

Spec == Init /\ [][Next]_vars

\* Requests interleaved at the handler's await, over archives of images.
NextConc ==
    \/ \E hdr \in Headers : Root(hdr) /\ UNCHANGED cutoutVars
    \/ \E hdr \in Headers : Ping(hdr) /\ UNCHANGED cutoutVars
    \/ \E hdr \in Headers, filename \in FileNames, body \in ImageBodies :
           CutoutBegin(hdr, filename, body, MaxInFlight) /\ UNCHANGED cutoutVars
    \/ \E i \in 1..MaxInFlight : CutoutResume(i) /\ UNCHANGED cutoutVars

SpecConc == Init /\ [][NextConc]_vars

\* cutout_rgba alone, over every image, threshold and mask of the bounds.
InitCutout ==
    /\ API_KEY = None
    /\ model = ModelNone
    /\ loadCount = 0
    /\ pending = <<>>
    /\ last = NoResponse
    /\ img \in Images
    /\ threshold \in Thresholds
    /\ mask \in [1..Len(img.px) -> MaskValues]
    /\ rgba = NoImage

NextCutout == CutoutCall

SpecCutout == InitCutout /\ [][NextCutout]_vars

\* ------------------------------------------------------------- properties
\* The route's dependency ran in the step that left `last` (a /ping answer, a
\* /cutout_zip rejection, or a /cutout_zip handler now at its await).
Configured == API_KEY # None /\ API_KEY # ""
GatedStep == last.route \in {"/ping", "/cutout_zip"} /\ ~last.read

\* C1: on GET /ping and POST /cutout_zip a request is rejected with 401 exactly
\* when an API key is configured (set and non-empty) and the X-API-Key header
\* is absent or differs from it; the rejecting step reads no upload, opens no
\* archive, writes none, leaves no handler suspended and does not touch the
\* model; with no key configured nothing is rejected with 401.
C1_Gate ==
    /\ [](GatedStep => (last.status = 401 <=> (Configured /\ last.hdr # API_KEY)))
    /\ [](last.status = 401 =>
            /\ ~last.read /\ ~last.zipOpened /\ ~last.archive
            /\ last.opened = <<>> /\ last.out = <<>> /\ last.trace = <<>>)
    /\ [](~Configured => last.status # 401)
    /\ [][last'.status = 401 => UNCHANGED <<model, loadCount, pending>>]_vars

C1_Witness ==
    /\ API_KEY = "k1"
    /\ last.route = "/cutout_zip"
    /\ last.hdr = None
    /\ last.status = 401
    /\ IsZipName(last.filename)

QualifiesAsStated(n) ==
    /\ ~(Len(n) > 0 /\ n[Len(n)] = "/")
    /\ \E i \in 1..Len(n) :
         /\ n[i] = "."
         /\ \A m \in (i + 1)..Len(n) : n[m] \notin {".", "/"}
         /\ \E j \in 1..(i - 1) :
              /\ n[j] \notin {".", "/"}
              /\ \A m \in j..(i - 1) : n[m] # "/"
         /\ Lower(SubSeq(n, i, Len(n))) \in valid_exts

QualifyingNames(b) == SelectSeq(NameList(b.entries), QualifiesAsStated)

\* C3: the result archive of an accepted /cutout_zip request has exactly one
\* entry per qualifying input entry, in order: a cutout PNG when load,
\* inference and encoding of that entry all succeed, an error marker when one
\* of them raises, never both and never neither.
C3_OneEntryPerMember ==
    last.archive =>
        /\ Len(last.out) = Len(QualifyingNames(last.body))
        /\ Len(last.trace) = Len(last.out)
        /\ \A k \in 1..Len(last.out) :
             /\ last.out[k].kind \in {"png", "error"}
             /\ last.out[k].kind = "png" <=> last.trace[k].raised = "none"

C3_Witness ==
    /\ last.archive
    /\ \E k \in 1..Len(last.out) : last.out[k].kind = "png"
    /\ \E k \in 1..Len(last.out) : last.out[k].kind = "error"

\* An upload that passes every validation of the handler.
ValidUpload(b) ==
    /\ b.zip
    /\ QualifyingNames(b) # <<>>
    /\ \A i \in 1..Len(b.entries) : b.entries[i].kind = "ok"

\* C4: a failure on one qualifying entry never aborts the request: once the
\* upload passed validation, every qualifying entry is opened in order, also
\* after an entry that failed, and the request answers 200 with the result
\* archive, even when every entry fails.
C4_FailureIsolated ==
    (last.route = "/cutout_zip" /\ last.read /\ (ValidUpload(last.body) \/ last.opened # <<>>)) =>
        /\ last.status = 200
        /\ last.archive
        /\ last.opened = QualifyingNames(last.body)
        /\ Len(last.out) = Len(last.opened)

C4_Witness ==
    /\ last.archive
    /\ Len(last.trace) >= 2
    /\ last.trace[1].raised # "none"
    /\ last.opened = last.members
    /\ \A k \in 1..Len(last.trace) : last.trace[k].raised # "none"

\* The calls of load_model a response's trace records, in order.
Calls(trace) == SelectSeq(trace, LAMBDA e : e.event # "nocall")

\* C5: the model is loaded lazily and at most once successfully over any
\* interleaving of requests: only the processing of a qualifying entry of an
\* accepted /cutout_zip request loads it (never /, /ping, a rejected request or
\* a handler still at its await); once loaded, the cached instance stays and
\* every later call is served from the cache; a load that raises leaves the
\* cache empty and the next call loads again.
C5_LoadOnce ==
    /\ [](loadCount <= 1 /\ (model = ModelNone <=> loadCount = 0))
    /\ [][model # ModelNone => model' = model]_vars
    /\ [][(model' # model \/ loadCount' # loadCount) =>
            /\ Len(pending') < Len(pending)
            /\ last'.route = "/cutout_zip" /\ last'.archive
            /\ \E k \in 1..Len(last'.trace) : last'.trace[k].event = "loaded"]_vars
    /\ [][Len(pending') < Len(pending) =>
            LET calls == Calls(last'.trace)
            IN  /\ model # ModelNone => \A k \in 1..Len(calls) : calls[k].event = "cached"
                /\ (model = ModelNone /\ calls # <<>>) => calls[1].event \in {"raised", "loaded"}
                /\ \A k \in 1..(Len(calls) - 1) :
                     /\ calls[k].event = "raised" => calls[k + 1].event \in {"raised", "loaded"}
                     /\ calls[k].event \in {"loaded", "cached"} => calls[k + 1].event = "cached"
                /\ model' = ModelNone <=>
                     (model = ModelNone /\ \A k \in 1..Len(calls) : calls[k].event = "raised")]_vars

C5_Witness ==
    /\ pending # <<>>
    /\ model # ModelNone
    /\ Len(last.trace) = 2
    /\ last.trace[1].event = "raised"
    /\ last.trace[2].event = "loaded"

\* C6 (as claimed): POST /cutout_zip answers 400, with no archive and no
\* inference, exactly when the file name does not end in .zip in any letter
\* case, or the body is no readable ZIP, or the ZIP has no qualifying entry,
\* or some entry of the archive, qualifying or not, is corrupt; in every other
\* case it answers with an archive.
C6_Claim ==
    (last.route = "/cutout_zip" /\ last.status \notin {0, 401}) =>
        LET refused ==
                IF ~last.read THEN ~IsZipName(last.filename)
                ELSE \/ ~last.body.zip
                     \/ QualifyingNames(last.body) = <<>>
                     \/ \E i \in 1..Len(last.body.entries) :
                            last.body.entries[i].kind = "badcrc"
        IN  /\ last.status = 400 <=> refused
            /\ last.status = 400 => (~last.archive /\ last.trace = <<>>)
            /\ ~refused => (last.status = 200 /\ last.archive)

FileNameAsStated(n) ==
    LET starts == {i \in 1..(Len(n) + 1) :
                      /\ \A m \in i..Len(n) : n[m] # "/"
                      /\ (i = 1 \/ n[i - 1] = "/")}
    IN  SubSeq(n, CHOOSE i \in starts : TRUE, Len(n))

\* A file name (with an extension) without its last extension.
StemAsStated(f) ==
    LET dots == {i \in 1..Len(f) : f[i] = "." /\ \A m \in (i + 1)..Len(f) : f[m] # "."}
    IN  SubSeq(f, 1, (CHOOSE i \in dots : TRUE) - 1)

HasSlash(n) == \E i \in 1..Len(n) : n[i] = "/"

\* C8: in the result archive a processed entry is stored as <base>_cutout.png,
\* <base> being the entry's file name without directory path and without its
\* last extension; a failed entry is stored as <file name>.ERROR.txt holding
\* the exception text; no output name keeps a directory component.
C8_OutputNames ==
    last.archive =>
        \A k \in 1..Len(last.out) :
            LET f == FileNameAsStated(last.members[k])
            IN  /\ ~HasSlash(last.out[k].name)
                /\ last.out[k].kind = "png" =>
                     last.out[k].name = StemAsStated(f) \o CutoutSuffix
                /\ last.out[k].kind = "error" =>
                     /\ last.out[k].name = f \o ErrorSuffix
                     /\ last.out[k].text = last.trace[k].raised
                     /\ last.out[k].text # "none"

C8_Witness ==
    /\ last.archive
    /\ last.members = <<Name_a_x_png, Name_b_x_JPG>>
    /\ last.out[1].kind = "png"
    /\ last.out[1].name = <<"x">> \o CutoutSuffix
    /\ last.out[2].kind = "error"
    /\ last.out[2].name = <<"x", ".", "J", "P", "G">> \o ErrorSuffix

\* C9 (as claimed): in the result archive, entries produced from different
\* qualifying input entries have pairwise different names, also when the
\* inputs share a base name and differ in directory or extension.
C9_Claim ==
    last.archive =>
        \A j, k \in 1..Len(last.out) :
            last.members[j] # last.members[k] => last.out[j].name # last.out[k].name

\* C10: cutout_rgba changes only the alpha channel: the result is RGBA with
\* the size of the EXIF-transposed input and the RGB values of that input
\* converted to RGB; with a threshold every alpha value is 0 or 255, 255
\* exactly when the resized mask's value is at least threshold*255; without a
\* threshold the alpha is the resized mask unchanged.
C10_AlphaOnly ==
    rgba # NoImage =>
        LET t   == ExifTranspose(img)
            rgb == ConvertRGB(t)
        IN  /\ rgba.mode = "RGBA"
            /\ rgba.size = (IF img.orientation = 6
                            THEN <<img.size[2], img.size[1]>> ELSE img.size)
            /\ Len(rgba.px) = Len(rgb.px)
            /\ \A k \in 1..Len(rgba.px) :
                 /\ SubSeq(rgba.px[k], 1, 3) = rgb.px[k]
                 /\ threshold = <<>> => rgba.px[k][4] = mask[k]
                 /\ threshold # <<>> =>
                      /\ rgba.px[k][4] \in {0, 255}
                      /\ rgba.px[k][4] = 255 <=>
                           mask[k] * threshold[2] >= threshold[1] * 255

C10_Witness ==
    /\ rgba # NoImage
    /\ img.orientation = 6
    /\ img.size = <<1, 2>>
    /\ rgba.size = <<2, 1>>
    /\ threshold = <<1, 1>>
    /\ mask = <<255, 128>>
    /\ rgba.px[1][4] = 255
    /\ rgba.px[2][4] = 0
====
